---- MODULE Spec2Model ----
(***************************************************************************)
(* Model of notebooks/cei_stock_analysis.ipynb: the helper functions       *)
(* get_cusip6 and create_score_bin, and the cells that load the two CSV    *)
(* files, derive cusip6 and score_bin, merge the frames, sum the event     *)
(* window returns and select the two samples of the t-test.                *)
(*                                                                         *)
(* Python values are tagged records: a missing value (NaN, None, NaT) is   *)
(* [t |-> "nan"], an int is [t |-> "int", v |-> n], a float with an        *)
(* integral value is [t |-> "float", v |-> n], a str is                    *)
(* [t |-> "str", v |-> <<characters>>] and a Timestamp is                  *)
(* [t |-> "ts", year, month, day].  A DataFrame is the sequence of its     *)
(* rows, each row a record of its columns.  Scores and returns are         *)
(* integers (returns in basis points).  Columns no modelled cell computes  *)
(* with (date, employer) and the plotting cells are left out.              *)
(*                                                                         *)
(* Two things the notebook leaves to its environment are modelled as they  *)
(* fall out: pd.read_csv infers the type of the CUSIP columns from their   *)
(* cells (a column of digits is read as numbers, and the merge of a        *)
(* numeric key with a str key raises ValueError), and the row order of an  *)
(* inner merge depends on the pandas release, which the repository does    *)
(* not pin (either order may result).                                      *)
(***************************************************************************)
EXTENDS Integers, Sequences, FiniteSets, TLC

VARIABLES pc, arg, ret, cei_df, stock_df, merged_df, firm_event_returns,
          high_scores, low_scores

vars == <<pc, arg, ret, cei_df, stock_df, merged_df, firm_event_returns,
          high_scores, low_scores>>

frames == <<cei_df, stock_df, merged_df, firm_event_returns, high_scores, low_scores>>

----------------------------------------------------------------------------
(* Python values *)

NaN == [t |-> "nan"]

None == NaN

PyInt(n) == [t |-> "int", v |-> n]

PyFloat(n) == [t |-> "float", v |-> n]

PyStr(s) == [t |-> "str", v |-> s]

isna(x) == x.t = "nan"

min(a, b) == IF a <= b THEN a ELSE b

Digits == <<"0", "1", "2", "3", "4", "5", "6", "7", "8", "9">>

\* str(n) / f"{n}" of a Python int: decimal digits, "-" in front when negative
RECURSIVE format_int(_)
format_int(n) ==
    IF n < 0 THEN <<"-">> \o format_int(0 - n)
    ELSE IF n < 10 THEN <<Digits[n + 1]>>
    ELSE format_int(n \div 10) \o <<Digits[(n % 10) + 1]>>

\* str(x) of a str, an int or a float of integral value ("594918104.0")
str(x) ==
    IF x.t = "str" THEN x.v
    ELSE IF x.t = "float" THEN format_int(x.v) \o <<".", "0">>
    ELSE format_int(x.v)

\* the characters str.strip() removes among the ones the model uses
Whitespace == {" ", "\t", "\n", "\r"}

RECURSIVE lstrip(_)
lstrip(s) == IF s # <<>> /\ Head(s) \in Whitespace THEN lstrip(Tail(s)) ELSE s

RECURSIVE rstrip(_)
rstrip(s) ==
    IF s # <<>> /\ s[Len(s)] \in Whitespace THEN rstrip(SubSeq(s, 1, Len(s) - 1)) ELSE s

strip(s) == rstrip(lstrip(s))

\* s[:n]
slice_to(s, n) == SubSeq(s, 1, min(n, Len(s)))

----------------------------------------------------------------------------
(* get_cusip6 *)

\* a plausible slip: > in place of >=
get_cusip6_strict(cusip) ==
    IF isna(cusip) THEN None
    ELSE LET cusip_str == strip(str(cusip))
         IN  IF Len(cusip_str) > 6 THEN PyStr(slice_to(cusip_str, 6)) ELSE None

get_cusip6(cusip) ==
    IF isna(cusip) THEN None
    ELSE LET cusip_str == strip(str(cusip))
         IN  IF Len(cusip_str) >= 6 THEN PyStr(slice_to(cusip_str, 6)) ELSE None

----------------------------------------------------------------------------
(* create_score_bin *)

create_score_bin(score) ==
    IF isna(score) THEN None
    ELSE LET bin_start == (score.v \div 10) * 10
             bin_end == min(bin_start + 9, 100)
         IN  PyStr(format_int(bin_start) \o <<"-">> \o format_int(bin_end))

----------------------------------------------------------------------------
(* Bounds and input domains of the function specifications *)

\* scores range over -ScoreMargin .. 100 + ScoreMargin
ScoreMargin == 10

ScoreArgs == {NaN} \cup {PyInt(n) : n \in (0 - ScoreMargin)..(100 + ScoreMargin)}

\* longest CUSIP string tried
MaxCusipLen == 7

CusipAlphabet == {" ", "\t", "A", "7"}

RECURSIVE StringsUpTo(_)
StringsUpTo(n) ==
    IF n = 0 THEN {<<>>}
    ELSE LET shorter == StringsUpTo(n - 1)
         IN  shorter \cup {Append(s, c) : s \in {u \in shorter : Len(u) = n - 1},
                                          c \in CusipAlphabet}

CusipNumbers == {0, 12345, 123456, 1234567, 912345678}

CusipArgs ==
    {NaN} \cup {PyStr(s) : s \in StringsUpTo(MaxCusipLen)}
          \cup {PyInt(n) : n \in CusipNumbers}
          \cup {PyFloat(n) : n \in CusipNumbers}

----------------------------------------------------------------------------
(* Specification of one call of create_score_bin *)

NoFrames ==
    /\ cei_df = <<>>
    /\ stock_df = <<>>
    /\ merged_df = <<>>
    /\ firm_event_returns = <<>>
    /\ high_scores = <<>>
    /\ low_scores = <<>>

InitBin ==
    /\ pc = "create_score_bin:call"
    /\ arg \in ScoreArgs
    /\ ret = None
    /\ NoFrames

CallCreateScoreBin ==
    /\ pc = "create_score_bin:call"
    /\ ret' = create_score_bin(arg)
    /\ pc' = "create_score_bin:return"
    /\ UNCHANGED <<arg, frames>>

NextBin == CallCreateScoreBin

SpecBin == InitBin /\ [][NextBin]_vars

(* Specification of one call of get_cusip6 *)

InitCusip ==
    /\ pc = "get_cusip6:call"
    /\ arg \in CusipArgs
    /\ ret = None
    /\ NoFrames

CallGetCusip6 ==
    /\ pc = "get_cusip6:call"
    /\ ret' = get_cusip6(arg)
    /\ pc' = "get_cusip6:return"
    /\ UNCHANGED <<arg, frames>>

NextCusip == CallGetCusip6

SpecCusip == InitCusip /\ [][NextCusip]_vars

----------------------------------------------------------------------------
(* Dates: pd.to_datetime of an ISO "YYYY-MM-DD" string, and .dt.year *)

NaT == NaN

digit_value(c) == CHOOSE d \in 0..9 : Digits[d + 1] = c

RECURSIVE parse_int(_)
parse_int(s) ==
    IF s = <<>> THEN 0
    ELSE parse_int(SubSeq(s, 1, Len(s) - 1)) * 10 + digit_value(s[Len(s)])

Timestamp(y, m, d) == [t |-> "ts", year |-> y, month |-> m, day |-> d]

to_datetime(x) ==
    IF isna(x) THEN NaT
    ELSE Timestamp(parse_int(SubSeq(x.v, 1, 4)),
                   parse_int(SubSeq(x.v, 6, 7)),
                   parse_int(SubSeq(x.v, 9, 10)))

dt_year(ts) == IF isna(ts) THEN NaN ELSE PyInt(ts.year)

----------------------------------------------------------------------------
(* pd.read_csv: the type of a column is inferred from its cells *)

\* the cell parses as an integer: digits, blanks around them allowed
is_integer_cell(x) ==
    LET body == strip(x.v)
    IN  body # <<>> /\ \A i \in DOMAIN body : \E d \in 0..9 : Digits[d + 1] = body[i]

\* the values of a column of text cells (NaN: an empty cell): int64 when every
\* cell is an integer, float64 when the rest are empty cells, else the text
infer_column(cells) ==
    IF \A i \in DOMAIN cells : isna(cells[i]) \/ is_integer_cell(cells[i])
    THEN IF \E i \in DOMAIN cells : isna(cells[i])
         THEN [i \in DOMAIN cells |->
                  IF isna(cells[i]) THEN NaN ELSE PyFloat(parse_int(strip(cells[i].v)))]
         ELSE [i \in DOMAIN cells |-> PyInt(parse_int(strip(cells[i].v)))]
    ELSE cells

\* the frame of the rows of a file, column c typed by inference
read_csv(file, c) ==
    LET column == infer_column([i \in DOMAIN file |-> file[i][c]])
    IN  [i \in DOMAIN file |-> [file[i] EXCEPT ![c] = column[i]]]

\* a non-empty column of numeric dtype (int64 or float64)
is_numeric_column(df, c) ==
    df # <<>> /\ \A i \in DOMAIN df : df[i][c].t \in {"int", "float", "nan"}

----------------------------------------------------------------------------
(* DataFrame operations *)

\* df.dropna(subset=...)
dropna(df, subset) == SelectSeq(df, LAMBDA r : \A c \in subset : ~isna(r[c]))

\* equality of merge keys: pandas matches a null key with a null key
key_eq(a, b) == IF isna(a) \/ isna(b) THEN isna(a) /\ isna(b) ELSE a.v = b.v

\* the row of the merged frame made of stock row l and CEI row r
merged_row(l, r) ==
    [cusip6 |-> l.cusip6, cei_release_date |-> l.cei_release_date,
     days_from_release |-> l.days_from_release, RET |-> l.RET,
     cei_year |-> l.cei_year, year |-> r.year, cei_score |-> r.cei_score,
     score_bin |-> r.score_bin]

RECURSIVE pair_with(_, _)
pair_with(l, right) ==
    IF right = <<>> THEN <<>>
    ELSE (IF key_eq(l.cusip6, Head(right).cusip6) /\ key_eq(l.cei_year, Head(right).year)
          THEN <<merged_row(l, Head(right))>> ELSE <<>>)
         \o pair_with(l, Tail(right))

\* the rows of an inner merge in the order of pandas >= 2.2: the left rows in
\* order, each with its matching right rows in order
RECURSIVE merge_left_order(_, _)
merge_left_order(left, right) ==
    IF left = <<>> THEN <<>>
    ELSE pair_with(Head(left), right) \o merge_left_order(Tail(left), right)

same_key(a, b) == key_eq(a.cusip6, b.cusip6) /\ key_eq(a.cei_year, b.cei_year)

\* the rows of an inner merge in the order of pandas < 2.2: grouped by key, the
\* keys in the order of their first appearance in the left frame
RECURSIVE merge_key_order(_, _)
merge_key_order(left, right) ==
    IF left = <<>> THEN <<>>
    ELSE merge_left_order(SelectSeq(left, LAMBDA l : same_key(l, Head(left))), right)
         \o merge_key_order(SelectSeq(left, LAMBDA l : ~same_key(l, Head(left))), right)

\* the row orders the installed pandas may give (pyproject.toml does not pin it)
MergeOrders == {"left", "key"}

\* left.merge(right, left_on=['cusip6', 'cei_year'], right_on=['cusip6', 'year'],
\* how='inner')
merge_inner(left, right, order) ==
    IF order = "left" THEN merge_left_order(left, right)
    ELSE merge_key_order(left, right)

\* the merge refuses a numeric cusip6 key on the left against the str cusip6
\* get_cusip6 made on the right, unless one of the frames is empty
merge_raises(left, right) ==
    left # <<>> /\ right # <<>> /\ is_numeric_column(left, "cusip6")

\* Series.between(lo, hi), inclusive, False on a missing value
between(x, lo, hi) == ~isna(x) /\ lo <= x.v /\ x.v <= hi

\* Series.isin(values)
isin(x, values) == ~isna(x) /\ x.v \in values

\* the order of str values, by code point; only the relative order matters
CodeOrder ==
    <<"\t", "\n", "\r", " ", "-", ".", "0", "1", "2", "3", "4", "5", "6", "7", "8", "9", "A", "U">>

ord(c) == CHOOSE i \in DOMAIN CodeOrder : CodeOrder[i] = c

RECURSIVE str_less(_, _)
str_less(a, b) ==
    IF b = <<>> THEN FALSE
    ELSE IF a = <<>> THEN TRUE
    ELSE IF Head(a) # Head(b) THEN ord(Head(a)) < ord(Head(b))
    ELSE str_less(Tail(a), Tail(b))

\* the order of the group keys (cusip6, year, score_bin)
key_less(k1, k2) ==
    IF k1.cusip6 # k2.cusip6 THEN str_less(k1.cusip6.v, k2.cusip6.v)
    ELSE IF k1.year # k2.year THEN k1.year.v < k2.year.v
    ELSE str_less(k1.score_bin.v, k2.score_bin.v)

RECURSIVE sort_keys(_)
sort_keys(S) ==
    IF S = {} THEN <<>>
    ELSE LET first == CHOOSE k \in S : \A o \in S \ {k} : key_less(k, o)
         IN  <<first>> \o sort_keys(S \ {first})

group_key(m) == [cusip6 |-> m.cusip6, year |-> m.year, score_bin |-> m.score_bin]

RECURSIVE sum_RET(_)
sum_RET(df) == IF df = <<>> THEN 0 ELSE Head(df).RET.v + sum_RET(Tail(df))

\* df.groupby(['cusip6', 'year', 'score_bin'])['RET'].sum().reset_index(): one row
\* per key with no missing part, in key order
groupby_sum(df) ==
    LET keyed == dropna(df, {"cusip6", "year", "score_bin"})
        keys == sort_keys({group_key(keyed[i]) : i \in DOMAIN keyed})
    IN  [i \in DOMAIN keys |->
            [cusip6 |-> keys[i].cusip6, year |-> keys[i].year,
             score_bin |-> keys[i].score_bin,
             event_return |->
                 PyInt(sum_RET(SelectSeq(dropna(keyed, {"RET"}),
                                         LAMBDA m : group_key(m) = keys[i])))]]

\* df[mask]['event_return']: the selected values under their row labels 0, 1, ...
RECURSIVE select_event_return(_, _, _)
select_event_return(df, bins, i) ==
    IF i > Len(df) THEN <<>>
    ELSE (IF isin(df[i].score_bin, bins)
          THEN <<[index |-> i - 1, value |-> df[i].event_return]>> ELSE <<>>)
         \o select_event_return(df, bins, i + 1)

\* the labels the statistical test cell selects
HighBins == {<<"9", "0", "-", "1", "0", "0">>}

LowBins == {<<"0", "-", "9">>, <<"1", "0", "-", "1", "9">>}

select_high(df) == select_event_return(df, HighBins, 1)

\* a plausible slip: the second low label forgotten
select_low_first_bin(df) == select_event_return(df, {<<"0", "-", "9">>}, 1)

select_low(df) == select_event_return(df, LowBins, 1)

----------------------------------------------------------------------------
(* Input files of the notebook *)

\* the two CSV files hold at most MaxRows rows together, each at least one
MaxRows == 5

CUSIP_X == PyStr(<<" ", "0", "0", "8", "4", "6", "U", "1", "0">>)

CUSIP_Y == PyStr(<<"5", "9", "4", "9", "1", "8", "1", "0", "4">>)

CUSIP_Z == PyStr(<<"0", "3", "7", "8", "3", "3", "1", "0", "0">>)

CUSIP6_X == PyStr(<<"0", "0", "8", "4", "6", "U">>)

CUSIP6_Y == PyStr(<<"5", "9", "4", "9", "1", "8">>)

CUSIP6_Z == PyStr(<<"0", "3", "7", "8", "3", "3">>)

DATE_2019 == PyStr(<<"2", "0", "1", "9", "-", "0", "3", "-", "2", "8">>)

DATE_2020 == PyStr(<<"2", "0", "2", "0", "-", "0", "1", "-", "2", "1">>)

CeiRow(c, y, s) == [cusip |-> c, year |-> y, cei_score |-> s]

StockRow(c, d, n, r) ==
    [cusip6 |-> c, cei_release_date |-> d, days_from_release |-> n, RET |-> r]

\* rows of data/processed/cei_with_dates.csv, the cusip as the text of its cell
CeiRows ==
    { CeiRow(CUSIP_X, PyInt(2019), PyInt(5)),
      CeiRow(CUSIP_X, PyInt(2019), PyInt(95)),
      CeiRow(CUSIP_Y, PyInt(2020), PyInt(15)),
      CeiRow(CUSIP_Y, NaN, PyInt(19)),
      CeiRow(CUSIP_Z, PyInt(2019), PyInt(100)),
      CeiRow(NaN, PyInt(2020), PyInt(20)),
      CeiRow(CUSIP_X, PyInt(2020), NaN) }

\* rows of data/processed/stock_prices_event_window.csv, the cusip6 and the date
\* as the text of their cells
StockRows ==
    { StockRow(CUSIP6_X, DATE_2019, PyInt(0), PyInt(2)),
      StockRow(CUSIP6_X, DATE_2019, PyInt(4), PyInt(4)),
      StockRow(CUSIP6_Y, DATE_2020, PyInt(1), PyInt(1)),
      StockRow(CUSIP6_Y, NaN, PyInt(0), PyInt(1)),
      StockRow(CUSIP6_X, DATE_2019, PyInt(0 - 3), NaN),
      StockRow(CUSIP6_Z, DATE_2019, PyInt(0 - 1), PyInt(5)) }

RECURSIVE SeqsUpTo(_, _)
SeqsUpTo(S, n) ==
    IF n = 0 THEN {<<>>}
    ELSE LET shorter == SeqsUpTo(S, n - 1)
         IN  shorter \cup {Append(q, x) : q \in {u \in shorter : Len(u) = n - 1}, x \in S}

----------------------------------------------------------------------------
(* The notebook, cell by cell *)

Init ==
    /\ pc = "load"
    /\ arg = None
    /\ ret = None
    /\ NoFrames

\* cell 2: read the two CSV files and parse the dates
LoadData ==
    /\ pc = "load"
    /\ \E cei_file \in SeqsUpTo(CeiRows, MaxRows - 1) \ {<<>>} :
       \E stock_file \in SeqsUpTo(StockRows, MaxRows - Len(cei_file)) \ {<<>>} :
          /\ cei_df' = read_csv(cei_file, "cusip")
          /\ stock_df' = [i \in DOMAIN stock_file |->
                             [read_csv(stock_file, "cusip6")[i] EXCEPT
                                 !.cei_release_date = to_datetime(@)]]
    /\ pc' = "cusip6"
    /\ UNCHANGED <<arg, ret, merged_df, firm_event_returns, high_scores, low_scores>>

\* cell 3: the cusip6 column, then drop the rows without cusip6 or cei_score
AddCusip6 ==
    /\ pc = "cusip6"
    /\ cei_df' = dropna([i \in DOMAIN cei_df |->
                            [cusip |-> cei_df[i].cusip, year |-> cei_df[i].year,
                             cei_score |-> cei_df[i].cei_score,
                             cusip6 |-> get_cusip6(cei_df[i].cusip)]],
                        {"cusip6", "cei_score"})
    /\ pc' = "score_bin"
    /\ UNCHANGED <<arg, ret, stock_df, merged_df, firm_event_returns, high_scores,
                   low_scores>>

\* cell 4: the score_bin column
AddScoreBin ==
    /\ pc = "score_bin"
    /\ cei_df' = [i \in DOMAIN cei_df |->
                     [cusip |-> cei_df[i].cusip, year |-> cei_df[i].year,
                      cei_score |-> cei_df[i].cei_score, cusip6 |-> cei_df[i].cusip6,
                      score_bin |-> create_score_bin(cei_df[i].cei_score)]]
    /\ pc' = "merge"
    /\ UNCHANGED <<arg, ret, stock_df, merged_df, firm_event_returns, high_scores,
                   low_scores>>

\* cell 6: the cei_year column, the inner merge, then drop the rows without RET
MergeData ==
    /\ pc = "merge"
    /\ ~merge_raises(stock_df, cei_df)
    /\ stock_df' = [i \in DOMAIN stock_df |->
                       [cusip6 |-> stock_df[i].cusip6,
                        cei_release_date |-> stock_df[i].cei_release_date,
                        days_from_release |-> stock_df[i].days_from_release,
                        RET |-> stock_df[i].RET,
                        cei_year |-> dt_year(stock_df[i].cei_release_date)]]
    /\ \E order \in MergeOrders :
          merged_df' = dropna(merge_inner(stock_df', cei_df, order), {"RET"})
    /\ pc' = "event_window"
    /\ UNCHANGED <<arg, ret, cei_df, firm_event_returns, high_scores, low_scores>>

\* cell 6 when the key types differ: cei_year is set, then the merge raises
\* ValueError and the run stops with merged_df unbound
MergeDataRaises ==
    /\ pc = "merge"
    /\ merge_raises(stock_df, cei_df)
    /\ stock_df' = [i \in DOMAIN stock_df |->
                       [cusip6 |-> stock_df[i].cusip6,
                        cei_release_date |-> stock_df[i].cei_release_date,
                        days_from_release |-> stock_df[i].days_from_release,
                        RET |-> stock_df[i].RET,
                        cei_year |-> dt_year(stock_df[i].cei_release_date)]]
    /\ pc' = "ValueError"
    /\ UNCHANGED <<arg, ret, cei_df, merged_df, firm_event_returns, high_scores,
                   low_scores>>

\* cell 13: the summed return of each firm-year over days -3 .. 3
EventWindowReturns ==
    /\ pc = "event_window"
    /\ LET event_window ==
               SelectSeq(merged_df, LAMBDA m : between(m.days_from_release, 0 - 3, 3))
       IN  firm_event_returns' = groupby_sum(event_window)
    /\ pc' = "stat_test"
    /\ UNCHANGED <<arg, ret, cei_df, stock_df, merged_df, high_scores, low_scores>>

\* cell 15: the two samples of the t-test
StatTest ==
    /\ pc = "stat_test"
    /\ high_scores' = select_high(firm_event_returns)
    /\ low_scores' = select_low(firm_event_returns)
    /\ pc' = "done"
    /\ UNCHANGED <<arg, ret, cei_df, stock_df, merged_df, firm_event_returns>>

Next ==
    \/ LoadData
    \/ AddCusip6
    \/ AddScoreBin
    \/ MergeData
    \/ MergeDataRaises
    \/ EventWindowReturns
    \/ StatTest

Spec == Init /\ [][Next]_vars

----------------------------------------------------------------------------
(* Properties *)

TenLabels ==
    { <<"0", "-", "9">>,
      <<"1", "0", "-", "1", "9">>,
      <<"2", "0", "-", "2", "9">>,
      <<"3", "0", "-", "3", "9">>,
      <<"4", "0", "-", "4", "9">>,
      <<"5", "0", "-", "5", "9">>,
      <<"6", "0", "-", "6", "9">>,
      <<"7", "0", "-", "7", "9">>,
      <<"8", "0", "-", "8", "9">>,
      <<"9", "0", "-", "1", "0", "0">> }

\* C1: create_score_bin maps every non-missing score in 0..100 to one of the
\* ten labels "0-9", "10-19", ..., "80-89", "90-100", the scores 90 through 100
\* all to "90-100", and to no other label.
C1_ScoreGetsOneOfTenLabels ==
    (pc = "create_score_bin:return" /\ ~isna(arg) /\ arg.v \in 0..100)
        => /\ ~isna(ret)
           /\ ret.v \in TenLabels
           /\ (arg.v >= 90 => ret.v = <<"9", "0", "-", "1", "0", "0">>)

\* the rows of the event window that make up the firm-year f of firm_event_returns
firm_year_rows(f) ==
    SelectSeq(merged_df,
              LAMBDA m : /\ between(m.days_from_release, 0 - 3, 3)
                         /\ group_key(m) = [cusip6 |-> f.cusip6, year |-> f.year,
                                            score_bin |-> f.score_bin])

\* the CEI scores of the firm-year f
firm_year_scores(f) ==
    LET rows == firm_year_rows(f) IN {rows[k].cei_score.v : k \in DOMAIN rows}

\* the sample holds the event return of row i of firm_event_returns
in_sample(sample, i) ==
    \E k \in DOMAIN sample :
        /\ sample[k].index = i - 1
        /\ sample[k].value = firm_event_returns[i].event_return

\* C2: high_scores holds the event return of every firm-year of
\* firm_event_returns whose CEI score is between 90 and 100 inclusive, and of
\* no firm-year with a score below 90.
C2_HighSampleIsScores90To100 ==
    pc = "done" =>
        /\ \A i \in DOMAIN firm_event_returns :
              (\E s \in firm_year_scores(firm_event_returns[i]) : 90 <= s /\ s <= 100)
                  => in_sample(high_scores, i)
        /\ \A k \in DOMAIN high_scores :
              \A s \in firm_year_scores(firm_event_returns[high_scores[k].index + 1]) :
                  s >= 90

\* C3: low_scores holds the event return of every firm-year of
\* firm_event_returns whose CEI score is between 0 and 19 inclusive, and of no
\* firm-year with a score of 20 or more.
C3_LowSampleIsScores0To19 ==
    pc = "done" =>
        /\ \A i \in DOMAIN firm_event_returns :
              (\E s \in firm_year_scores(firm_event_returns[i]) : 0 <= s /\ s <= 19)
                  => in_sample(low_scores, i)
        /\ \A k \in DOMAIN low_scores :
              /\ low_scores[k].index + 1 \in DOMAIN firm_event_returns
              /\ in_sample(low_scores, low_scores[k].index + 1)
              /\ \A s \in firm_year_scores(firm_event_returns[low_scores[k].index + 1]) :
                    s < 20

\* a firm-year scored 10..19 is in the low sample while another firm-year,
\* scored 20 or more, is left out of it
C3_Witness ==
    /\ pc = "done"
    /\ \E i, j \in DOMAIN firm_event_returns :
          /\ \E s \in firm_year_scores(firm_event_returns[i]) : 10 <= s /\ s <= 19
          /\ in_sample(low_scores, i)
          /\ \E s \in firm_year_scores(firm_event_returns[j]) : s >= 20
          /\ ~in_sample(low_scores, j)

\* the string with its leading and trailing whitespace removed: what lies
\* between the first and the last character that is not whitespace
stripped_form(s) ==
    LET solid == {i \in DOMAIN s : s[i] \notin Whitespace}
    IN  IF solid = {} THEN <<>>
        ELSE SubSeq(s, CHOOSE i \in solid : \A j \in solid : i <= j,
                       CHOOSE i \in solid : \A j \in solid : i >= j)

\* C4: get_cusip6 returns the first 6 characters of the stripped string form of
\* the CUSIP when that has at least 6 characters, None when the CUSIP is missing
\* or its stripped string form is shorter; a result other than None has length 6.
C4_Cusip6IsFirstSixOfStripped ==
    pc = "get_cusip6:return" =>
        /\ isna(arg) => isna(ret)
        /\ ~isna(arg) =>
              LET stripped == stripped_form(str(arg))
              IN  IF Len(stripped) >= 6
                  THEN /\ ~isna(ret)
                       /\ ret.v = <<stripped[1], stripped[2], stripped[3],
                                    stripped[4], stripped[5], stripped[6]>>
                  ELSE isna(ret)
        /\ ~isna(ret) => Len(ret.v) = 6

\* a CUSIP of exactly 6 characters between leading and trailing whitespace
C4_Witness ==
    /\ pc = "get_cusip6:return"
    /\ ~isna(arg)
    /\ arg.t = "str"
    /\ Len(arg.v) > 6
    /\ arg.v[1] \in Whitespace
    /\ Len(stripped_form(arg.v)) = 6
    /\ ~isna(ret)

\* C5: every row of merged_df after cleaning pairs a stock row with a CEI record
\* of the same cusip6 whose year equals the calendar year of the stock row's
\* cei_release_date; a stock row without such a record does not appear, and no
\* row with a missing RET remains.
C5_MergedRowsMatchCusipAndYear ==
    pc \in {"event_window", "stat_test", "done"} =>
        \A k \in DOMAIN merged_df :
            /\ ~isna(merged_df[k].RET)
            /\ \E i \in DOMAIN stock_df, j \in DOMAIN cei_df :
                  /\ merged_df[k] = merged_row(stock_df[i], cei_df[j])
                  /\ ~isna(stock_df[i].cusip6)
                  /\ stock_df[i].cusip6 = cei_df[j].cusip6
                  /\ ~isna(stock_df[i].cei_release_date)
                  /\ ~isna(cei_df[j].year)
                  /\ cei_df[j].year.v = stock_df[i].cei_release_date.year

====
